---- MODULE Spec2Model ----
(***************************************************************************)
(* A model of smallsh (src/smallsh.c): the interpreter loop of main(), its  *)
(* built-ins, the execution engine execute_smallsh(), the linked list of    *)
(* background pids and the reaping sweep wait_background(), together with   *)
(* the child processes the interpreter forks.                               *)
(*                                                                          *)
(* The interpreter is one sequential process; pc is its position in the     *)
(* do/while loop of main().  Children are separate processes that finish    *)
(* their setup (redirection, execvp) and terminate on their own.            *)
(***************************************************************************)
EXTENDS Integers, Sequences, FiniteSets, TLC

VARIABLES
    pc,               \* position of the interpreter in main()
    foreground_mode,  \* global int foreground_mode (smallsh.c:16)
    pid_head,         \* linked list of background pids, head first
    exit_code,        \* main()'s exit_code: the Last Status
    parse_status,     \* main()'s parse_status, written by get_input()
    cwd,              \* working directory of the interpreter
    fds,              \* the interpreter's own stdin / stdout bindings
    child,            \* pid -> process record of every child ever forked
    fg_pid,           \* pid the interpreter is blocked on in waitpid(), 0 if none
    nforks,           \* number of successful forks so far (pids are 1..nforks)
    out,              \* lines the interpreter printed in its most recent step
    reports,          \* pid -> completion reports printed for it so far
    last,             \* the most recent step taken (operation and request)
    HOME,             \* value of the HOME environment variable
    freed_read,       \* what reading a freed Node's next field yields in this
                      \* build; "unread" until the first such read
    shell_status      \* wait status of the interpreter process itself, NULL
                      \* while it runs

vars == <<pc, foreground_mode, pid_head, exit_code, parse_status, cwd, fds,
          child, fg_pid, nforks, out, reports, last, HOME, freed_read,
          shell_status>>

-----------------------------------------------------------------------------
(* Bounds of the model *)

\* number of children the interpreter may fork in one run
MaxForks == 2

Pids == 1..MaxForks

NULL == "NULL"

\* directories that exist; chdir() succeeds exactly on these
Dirs == {"/", "/home/user"}

\* files open() can open for reading / for writing
ReadableFiles == {"in.txt"}
WritableFiles == {"out.txt"}

\* programs execvp() can execute
Programs == {"ls"}

\* exit codes of a program that ran, and signals that can end it
ExitCodes == {0, 3}
TermSignals == {15}

\* signal numbers, <signal.h>
SIGINT == 2
SIGKILL == 9
SIGSEGV == 11
SIGTSTP == 20

-----------------------------------------------------------------------------
(* Wait status words, <sys/wait.h> *)

\* status word of a child that called exit(n)
W_EXITCODE(n) == (n % 256) * 256

\* status word of a child ended by signal s
W_TERMSIG(s) == s

WTERMSIG(x) == x % 128

WEXITSTATUS(x) == (x \div 256) % 256

WIFEXITED(x) == WTERMSIG(x) = 0

\* ((signed char) ((x & 0x7f) + 1) >> 1) > 0
WIFSIGNALED(x) ==
    LET t == (x % 128) + 1
        sc == IF t >= 128 THEN t - 256 ELSE t
    IN  (sc \div 2) > 0

-----------------------------------------------------------------------------
(* Output lines: a message with the numbers it is formatted with *)

Line(m, p, n) == [msg |-> m, pid |-> p, n |-> n]

BgStartMsg == "Background pid is <pid>."
BgExitMsg == "background pid <pid> is done: exit value <n>"
BgSignalMsg == "background pid <pid> is done: terminated by signal <n>"
TermSignalMsg == "terminated by signal <n>"
ExitValueMsg == "exit value <n>"
EnterFgOnlyMsg == "Entering foreground-only mode (& is now ignored)"
ExitFgOnlyMsg == "Exiting foreground-only mode"

-----------------------------------------------------------------------------
(* parse_input(): a line is its sequence of space-separated tokens,          *)
(* tokens[1] being the command                                               *)

\* the raw lines a user types; <<>> is the blank line
CommentLine == <<"#note">>

ExecLines ==
    { <<"ls">>,
      <<"ls", "-l", "&">>,
      <<"ls", "<", "in.txt", "&">>,
      <<"ls", ">", "out.txt", "&">>,
      <<"ls", "<", "missing.txt">>,
      <<"ls", ">", "/ro/out.txt">>,
      <<"nosuchcmd">> }

CdLines == { <<"cd">>, <<"cd", "/">>, <<"cd", "/nonexistent">> }

StatusLine == <<"status">>

ExitLine == <<"exit">>

\* tokens[0][0] == '#'
IsComment(tokens) == tokens[1] \in {"#note"}

\* the tokens that end the argument list (smallsh.c:460)
IsSpecial(tok) == tok \in {"<", ">", "&"}

\* the while loop of smallsh.c:455-466
NumArgs(tokens) ==
    LET stop == {j \in 2..Len(tokens) : IsSpecial(tokens[j])}
    IN  IF stop = {} THEN Len(tokens) - 1
        ELSE (CHOOSE j \in stop : \A k \in stop : j <= k) - 2

\* variant: the mode flag is not consulted
IsBackground_IgnoresMode(tokens, mode) == tokens[Len(tokens)] = "&"

\* smallsh.c:470: the last token is "&" and the mode flag is off
IsBackground(tokens, mode) == tokens[Len(tokens)] = "&" /\ mode = FALSE

\* the for loop of smallsh.c:490-507: the token after the last "<" (">")
FileAfter(tokens, sym) ==
    LET at == {i \in (NumArgs(tokens) + 1)..(Len(tokens) - 1) : tokens[i] = sym}
    IN  IF at = {} THEN NULL
        ELSE tokens[(CHOOSE i \in at : \A k \in at : k <= i) + 1]

\* the Input struct parse_input() fills for a line that is not a comment
ParseInput(tokens, mode) ==
    [ command       |-> tokens[1],
      args          |-> SubSeq(tokens, 2, 1 + NumArgs(tokens)),
      input_file    |-> FileAfter(tokens, "<"),
      output_file   |-> FileAfter(tokens, ">"),
      is_background |-> IsBackground(tokens, mode) ]

\* init_input(): the empty request
InitInput ==
    [ command |-> NULL, args |-> <<>>, input_file |-> NULL,
      output_file |-> NULL, is_background |-> FALSE ]

-----------------------------------------------------------------------------
(* Child processes *)

InputOpenErr == "Error: input file could not be opened"
OutputOpenErr == "Error: output file could not be opened"
ExecErr == "Error: command could not be processed"

\* parent_handler(): the signal dispositions of the interpreter, installed
\* by main() before the loop and again after every fork
parent_handler == [sigint |-> "ignore", sigtstp |-> "set_foreground_mode"]

\* a pid that has not been forked yet
NoChild ==
    [ st |-> "none", in |-> InitInput, stdin |-> NULL, stdout |-> NULL,
      image |-> NULL, argv |-> <<>>, diag |-> NULL, status |-> 0,
      sigint |-> NULL, sigtstp |-> NULL ]

\* fork(): the child is a copy of the interpreter holding the request; it
\* starts with the interpreter's signal dispositions
ForkedChild(in) ==
    [ st |-> "forked", in |-> in, stdin |-> fds.stdin, stdout |-> fds.stdout,
      image |-> "smallsh", argv |-> <<>>, diag |-> NULL, status |-> 0,
      sigint |-> parent_handler.sigint, sigtstp |-> parent_handler.sigtstp ]

\* child_handler(in): the first call of the child branch
child_handler(c) ==
    [c EXCEPT !.sigtstp = "ignore",
              !.sigint = IF c.in.is_background THEN "ignore" ELSE "default"]

\* a terminated child: it holds no request, argument vector or descriptor
\* any more, only its status word for the parent to collect
Zombie(c, status) ==
    [NoChild EXCEPT !.st = "zombie", !.image = c.image, !.diag = c.diag,
                    !.status = status]

\* variant: the message is printed but the child goes on
exit_in_err_child_Returns(c, message) == [c EXCEPT !.diag = message]

\* exit_in_err_child(): print the message and exit(1)
exit_in_err_child(c, message) ==
    Zombie([c EXCEPT !.diag = message], W_EXITCODE(1))

\* smallsh.c:330-346: standard input of the child
RedirectInput(c) ==
    IF c.in.input_file # NULL
    THEN IF c.in.input_file \in ReadableFiles
         THEN [c EXCEPT !.stdin = c.in.input_file]
         ELSE exit_in_err_child(c, InputOpenErr)
    ELSE IF c.in.is_background
         THEN [c EXCEPT !.stdin = "/dev/null"]
         ELSE c

\* variant: the null device is used only when no stream has a path
RedirectOutput_OnlyIfNoInput(c) ==
    IF c.in.output_file # NULL
    THEN IF c.in.output_file \in WritableFiles
         THEN [c EXCEPT !.stdout = c.in.output_file]
         ELSE Zombie([c EXCEPT !.diag = OutputOpenErr], W_EXITCODE(1))
    ELSE IF c.in.is_background /\ c.in.input_file = NULL
         THEN [c EXCEPT !.stdout = "/dev/null"]
         ELSE c

\* smallsh.c:348-364: standard output of the child
RedirectOutput(c) ==
    IF c.in.output_file # NULL
    THEN IF c.in.output_file \in WritableFiles
         THEN [c EXCEPT !.stdout = c.in.output_file]
         ELSE exit_in_err_child(c, OutputOpenErr)
    ELSE IF c.in.is_background
         THEN [c EXCEPT !.stdout = "/dev/null"]
         ELSE c

\* smallsh.c:310-327 and 367-377: build cmd and execvp() it
ExecCommand(c) ==
    IF c.in.command \in Programs
    THEN [c EXCEPT !.st = "running", !.image = c.in.command,
                   !.argv = <<c.in.command>> \o c.in.args]
    ELSE exit_in_err_child(c, ExecErr)

\* the child branch of execute_smallsh(), smallsh.c:304-378
ChildBranch(c) ==
    LET c0 == child_handler(c)
        c1 == RedirectInput(c0)
        c2 == IF c1.st = "zombie" THEN c1 ELSE RedirectOutput(c1)
    IN  IF c2.st = "zombie" THEN c2 ELSE ExecCommand(c2)

\* a child the interpreter has not yet waited for successfully
Unreaped(c) == c.st \in {"forked", "running", "zombie"}

\* what is left of a child once waitpid() has returned its status
Reaped(c) == [NoChild EXCEPT !.st = "reaped"]

-----------------------------------------------------------------------------
(* The linked list of background pids and wait_background()                  *)
(*                                                                           *)
(* The list is the sequence of its nodes' pids, head first; a node is named  *)
(* by the pid it holds (a pid is inserted once) and 0 is the NULL pointer.   *)

\* node->next for the node holding p
NextOf(list, p) ==
    LET at == {i \in 1..Len(list) : list[i] = p}
    IN  IF at = {} THEN 0
        ELSE LET i == CHOOSE j \in at : TRUE
             IN  IF i < Len(list) THEN list[i + 1] ELSE 0

InList(list, p) == \E i \in 1..Len(list) : list[i] = p

Unlink(list, p) == SelectSeq(list, LAMBDA x : x # p)

\* what reading the next field of a Node after free() can yield: the NULL
\* stored just before free(), the pointer held before that store (the store
\* is dead and may be dropped), or whatever the allocator wrote over it
FreedReads == {"null", "stale", "wild"}

\* variant: the wait blocks until the child has ended
WaitNoHang_Blocking(ch, p) ==
    IF Unreaped(ch[p]) THEN p ELSE -1

\* waitpid(pid, &exit_code, WNOHANG)
WaitNoHang(ch, p) ==
    IF ch[p].st = "zombie" THEN p
    ELSE IF Unreaped(ch[p]) THEN 0
    ELSE -1

\* variant: the status word is printed without WEXITSTATUS()
CompletionReport_NoDecode(wait_result, status) ==
    IF WIFEXITED(status) /\ wait_result # -1
    THEN <<Line(BgExitMsg, wait_result, status)>>
    ELSE IF WIFSIGNALED(status)
         THEN <<Line(BgSignalMsg, wait_result, WTERMSIG(status))>>
         ELSE <<>>

\* smallsh.c:584-593: the completion report of one terminated child
CompletionReport(wait_result, status) ==
    IF WIFEXITED(status) /\ wait_result # -1
    THEN <<Line(BgExitMsg, wait_result, WEXITSTATUS(status))>>
    ELSE IF WIFSIGNALED(status)
         THEN <<Line(BgSignalMsg, wait_result, WTERMSIG(status))>>
         ELSE <<>>

\* variant: only a node at the head of the list is removed
RemoveNode_HeadOnly(list, wait_result, mode) ==
    IF Head(list) = wait_result
    THEN [list |-> Tail(list), crashed |-> FALSE, uaf |-> FALSE]
    ELSE [list |-> list, crashed |-> FALSE, uaf |-> FALSE]

\* smallsh.c:597-615: unlink and free the node holding wait_result.  After
\* free(curr) in the inner loop, the loop condition reads curr->next.
RemoveNode(list, wait_result, mode) ==
    IF Head(list) = wait_result
    THEN [list |-> Tail(list), crashed |-> FALSE, uaf |-> FALSE]
    ELSE [list |-> Unlink(list, wait_result),
          crashed |-> InList(list, wait_result) /\ mode = "wild",
          uaf |-> InList(list, wait_result)]

\* smallsh.c:620-626: temp = temp->next, temp being freed when its child
\* was found terminated
Advance(oldlist, newlist, temp, freed, mode) ==
    IF newlist = <<>> THEN [temp |-> 0, crashed |-> FALSE, uaf |-> FALSE]
    ELSE IF ~freed
         THEN [temp |-> NextOf(oldlist, temp), crashed |-> FALSE, uaf |-> FALSE]
    ELSE IF mode = "null" THEN [temp |-> 0, crashed |-> FALSE, uaf |-> TRUE]
    ELSE IF mode = "stale"
         THEN [temp |-> NextOf(oldlist, temp), crashed |-> FALSE, uaf |-> TRUE]
    ELSE [temp |-> 0, crashed |-> TRUE, uaf |-> TRUE]

\* one iteration of the while loop of wait_background(), smallsh.c:576-628
SweepStep(s, mode) ==
    LET p == s.temp
        wait_result == WaitNoHang(s.ch, p)
        status == s.ch[p].status
        rep == IF wait_result # 0 THEN CompletionReport(wait_result, status)
               ELSE <<>>
        rm == IF wait_result # 0 THEN RemoveNode(s.list, wait_result, mode)
              ELSE [list |-> s.list, crashed |-> FALSE, uaf |-> FALSE]
        adv == Advance(s.list, rm.list, p, wait_result = p, mode)
    IN  [ list    |-> rm.list,
          temp    |-> IF rm.crashed THEN 0 ELSE adv.temp,
          ch      |-> IF wait_result = p
                      THEN [s.ch EXCEPT ![p] = Reaped(s.ch[p])] ELSE s.ch,
          lines   |-> s.lines \o rep,
          crashed |-> rm.crashed \/ adv.crashed,
          uaf     |-> s.uaf \/ rm.uaf \/ (~rm.crashed /\ adv.uaf) ]

RECURSIVE SweepFrom(_, _)
SweepFrom(s, mode) ==
    IF s.temp = 0 \/ s.crashed THEN s ELSE SweepFrom(SweepStep(s, mode), mode)

\* wait_background(&pid_head)
wait_background(list, ch, mode) ==
    SweepFrom([ list |-> list, temp |-> IF list = <<>> THEN 0 ELSE Head(list),
                ch |-> ch, lines |-> <<>>, crashed |-> FALSE,
                uaf |-> FALSE ], mode)

-----------------------------------------------------------------------------
(* Built-ins *)

\* chdir(path)
chdir(path) == IF path \in Dirs THEN 0 ELSE -1

\* cd_smallsh(path): the status chdir() returns; path is NULL without argument
cd_smallsh(path) == IF path # NULL THEN chdir(path) ELSE chdir(HOME)

\* variant: the directory changes whether or not chdir() succeeds
CdTarget_IgnoresFailure(path) == IF path # NULL THEN path ELSE HOME

\* the directory the interpreter is in after cd_smallsh(path)
CdTarget(path) ==
    LET dest == IF path # NULL THEN path ELSE HOME
    IN  IF chdir(dest) = 0 THEN dest ELSE cwd

\* status_smallsh(exit_code): the lines it prints
status_smallsh(code) ==
    IF WIFSIGNALED(code) THEN <<Line(TermSignalMsg, 0, WTERMSIG(code))>>
    ELSE IF WIFEXITED(code) THEN <<Line(ExitValueMsg, 0, WEXITSTATUS(code))>>
    ELSE <<>>

\* variant: the nodes' children are signalled but not waited for
exit_smallsh_NoWait(list, ch) ==
    [p \in Pids |->
        IF InList(list, p) /\ ch[p].st \in {"forked", "running"}
        THEN Zombie(ch[p], W_TERMSIG(SIGKILL))
        ELSE ch[p]]

\* exit_smallsh(pid_head): kill(SIGKILL) and a blocking waitpid() per node.
\* A child that was alive and is ended by the SIGKILL keeps, in its record,
\* the status the blocking waitpid() collected.
exit_smallsh(list, ch) ==
    [p \in Pids |->
        IF InList(list, p) /\ Unreaped(ch[p])
        THEN IF ch[p].st = "zombie" THEN Reaped(ch[p])
             ELSE [Reaped(ch[p]) EXCEPT !.status = W_TERMSIG(SIGKILL)]
        ELSE ch[p]]

-----------------------------------------------------------------------------
(* The state machine *)

Step(op, line, pid) == [op |-> op, line |-> line, pid |-> pid]

\* the reports printed by a sweep, filed under the pid each one names
FileReports(rep, lines) ==
    [p \in Pids |-> rep[p] \o SelectSeq(lines, LAMBDA l : l.pid = p)]

Init ==
    /\ pc = "sweep"
    /\ foreground_mode = FALSE
    /\ pid_head = <<>>
    /\ exit_code = 0
    /\ parse_status = TRUE
    /\ cwd = "/"
    /\ fds = [stdin |-> "tty", stdout |-> "tty"]
    /\ child = [p \in Pids |-> NoChild]
    /\ fg_pid = 0
    /\ nforks = 0
    /\ out = <<>>
    /\ reports = [p \in Pids |-> <<>>]
    /\ last = Step("start", <<>>, 0)
    /\ HOME \in {"/home/user", "/gone"}
    /\ freed_read = "unread"
    /\ shell_status = NULL

\* main(), smallsh.c:647: the reaping sweep that opens every cycle
WaitBackground ==
    /\ pc = "sweep"
    /\ \E mode \in (IF freed_read = "unread" THEN FreedReads ELSE {freed_read}) :
         LET r == wait_background(pid_head, child, mode)
         IN  /\ pid_head' = r.list
             /\ child' = r.ch
             /\ out' = r.lines
             /\ reports' = FileReports(reports, r.lines)
             /\ pc' = IF r.crashed THEN "crashed" ELSE "read"
             /\ freed_read' = IF r.uaf THEN mode ELSE freed_read
             /\ shell_status' = IF r.crashed THEN W_TERMSIG(SIGSEGV)
                                 ELSE shell_status
    /\ last' = Step("wait_background", <<>>, 0)
    /\ UNCHANGED <<foreground_mode, exit_code, parse_status, cwd, fds,
                   fg_pid, nforks, HOME>>

\* get_input() on a blank line: parse_input() is not called, parse_status
\* keeps the value of the previous line and in->command is NULL; with
\* parse_status TRUE, strcmp() is handed the NULL command (smallsh.c:552-553)
ReadBlank ==
    /\ pc = "read"
    /\ pc' \in (IF parse_status THEN {"crashed", "sweep"} ELSE {"sweep"})
    /\ shell_status' = IF pc' = "crashed" THEN W_TERMSIG(SIGSEGV)
                        ELSE shell_status
    /\ out' = <<>>
    /\ last' = Step("blank", <<>>, 0)
    /\ UNCHANGED <<foreground_mode, pid_head, exit_code, parse_status, cwd,
                   fds, child, fg_pid, nforks, reports, HOME, freed_read>>

\* a line whose first token begins with '#': parse_input() returns FALSE
ReadComment ==
    /\ pc = "read"
    /\ IsComment(CommentLine)
    /\ parse_status' = FALSE
    /\ pc' = "sweep"
    /\ out' = <<>>
    /\ last' = Step("comment", CommentLine, 0)
    /\ UNCHANGED <<foreground_mode, pid_head, exit_code, cwd, fds, child,
                   fg_pid, nforks, reports, HOME, freed_read, shell_status>>

\* shutdown: exit_smallsh(), leaving the loop, free_nodes(), return 0
Shutdown(op, line) ==
    /\ child' = exit_smallsh(pid_head, child)
    /\ pid_head' = <<>>
    /\ pc' = "done"
    /\ shell_status' = W_EXITCODE(0)
    /\ out' = <<>>
    /\ last' = Step(op, line, 0)
    /\ UNCHANGED <<foreground_mode, exit_code, cwd, fds, fg_pid, nforks,
                   reports, HOME, freed_read>>

\* the line "exit": get_input() returns FALSE
ReadExit ==
    /\ pc = "read"
    /\ ~IsComment(ExitLine)
    /\ ParseInput(ExitLine, foreground_mode).command = "exit"
    /\ parse_status' = TRUE
    /\ Shutdown("exit", ExitLine)

\* end of input: getline() returns -1
ReadEOF ==
    /\ pc = "read"
    /\ UNCHANGED parse_status
    /\ Shutdown("eof", <<>>)

\* the line "cd [path]"
ReadCd ==
    /\ pc = "read"
    /\ \E line \in CdLines :
         LET in == ParseInput(line, foreground_mode)
             path == IF in.args # <<>> THEN in.args[1] ELSE NULL
         IN  /\ in.command = "cd"
             /\ exit_code' = cd_smallsh(path)
             /\ cwd' = CdTarget(path)
             /\ last' = Step("cd", line, 0)
    /\ parse_status' = TRUE
    /\ pc' = "sweep"
    /\ out' = <<>>
    /\ UNCHANGED <<foreground_mode, pid_head, fds, child, fg_pid, nforks,
                   reports, HOME, freed_read, shell_status>>

\* the line "status"
ReadStatus ==
    /\ pc = "read"
    /\ ParseInput(StatusLine, foreground_mode).command = "status"
    /\ out' = status_smallsh(exit_code)
    /\ parse_status' = TRUE
    /\ pc' = "sweep"
    /\ last' = Step("status", StatusLine, 0)
    /\ UNCHANGED <<foreground_mode, pid_head, exit_code, cwd, fds, child,
                   fg_pid, nforks, reports, HOME, freed_read, shell_status>>

\* the dispatcher's last branch (smallsh.c:670-673): the request of a line
\* that names no built-in, as execute_smallsh() receives it
ExecRequest(line) == ParseInput(line, foreground_mode)

IsExecLine(line) ==
    /\ ~IsComment(line)
    /\ ExecRequest(line).command \notin {"exit", "cd", "status"}

\* variant: a failed fork() leaves the exit_code at its initial 0
execute_smallsh_FailureZero(in, fork_pid, list) ==
    IF fork_pid = -1
    THEN [exit_code |-> 0, list |-> list, lines |-> <<>>, wait |-> 0]
    ELSE IF ~in.is_background
         THEN [exit_code |-> 0, list |-> list, lines |-> <<>>,
               wait |-> fork_pid]
         ELSE [exit_code |-> 0, list |-> <<fork_pid>> \o list,
               lines |-> <<Line(BgStartMsg, fork_pid, 0)>>, wait |-> 0]

\* execute_smallsh() in the interpreter, smallsh.c:379-406, for the value
\* fork() returned: the exit_code it returns unless it has to wait, the
\* list, the lines printed, and the pid it blocks on in waitpid() (0: none)
execute_smallsh(in, fork_pid, list) ==
    IF fork_pid = -1
    THEN [exit_code |-> 1, list |-> list, lines |-> <<>>, wait |-> 0]
    ELSE IF ~in.is_background
         THEN [exit_code |-> 0, list |-> list, lines |-> <<>>,
               wait |-> fork_pid]
         ELSE [exit_code |-> 0, list |-> <<fork_pid>> \o list,
               lines |-> <<Line(BgStartMsg, fork_pid, 0)>>, wait |-> 0]

\* a line for the execution engine when fork() returns -1
ForkFails ==
    /\ pc = "read"
    /\ \E line \in ExecLines :
         LET r == execute_smallsh(ExecRequest(line), -1, pid_head)
         IN  /\ IsExecLine(line)
             /\ pid_head' = r.list
             /\ out' = r.lines
             /\ fg_pid' = r.wait
             /\ pc' = IF r.wait = 0 THEN "sweep" ELSE "fgwait"
             /\ exit_code' = IF r.wait = 0 THEN r.exit_code ELSE exit_code
             /\ last' = Step("fork_failed", line, 0)
    /\ parse_status' = TRUE
    /\ UNCHANGED <<foreground_mode, cwd, fds, child, nforks, reports, HOME,
                   freed_read, shell_status>>

\* a line for the execution engine, fork() succeeds and execute_smallsh()
\* returns without waiting: main() stores the exit_code it returns
StartBackground ==
    /\ pc = "read"
    /\ nforks < MaxForks
    /\ \E line \in ExecLines :
         LET in == ExecRequest(line)
             fork_pid == nforks + 1
             r == execute_smallsh(in, fork_pid, pid_head)
         IN  /\ IsExecLine(line)
             /\ r.wait = 0
             /\ child' = [child EXCEPT ![fork_pid] = ForkedChild(in)]
             /\ pid_head' = r.list
             /\ out' = r.lines
             /\ exit_code' = r.exit_code
             /\ last' = Step("background", line, fork_pid)
    /\ nforks' = nforks + 1
    /\ parse_status' = TRUE
    /\ pc' = "sweep"
    /\ UNCHANGED <<foreground_mode, cwd, fds, fg_pid, reports, HOME,
                   freed_read, shell_status>>

\* a line for the execution engine, fork() succeeds and execute_smallsh()
\* enters the blocking waitpid() (smallsh.c:389)
StartForeground ==
    /\ pc = "read"
    /\ nforks < MaxForks
    /\ \E line \in ExecLines :
         LET in == ExecRequest(line)
             fork_pid == nforks + 1
             r == execute_smallsh(in, fork_pid, pid_head)
         IN  /\ IsExecLine(line)
             /\ r.wait # 0
             /\ child' = [child EXCEPT ![fork_pid] = ForkedChild(in)]
             /\ pid_head' = r.list
             /\ out' = r.lines
             /\ fg_pid' = r.wait
             /\ last' = Step("foreground", line, fork_pid)
    /\ nforks' = nforks + 1
    /\ parse_status' = TRUE
    /\ pc' = "fgwait"
    /\ UNCHANGED <<foreground_mode, exit_code, cwd, fds, reports, HOME,
                   freed_read, shell_status>>

\* variant: the notice is printed whatever way the child ended
ForegroundNotice_Always(status) ==
    <<Line(TermSignalMsg, 0, WTERMSIG(status))>>

\* smallsh.c:391-393: the notice printed once the foreground wait returned
ForegroundNotice(status) ==
    IF WIFSIGNALED(status)
    THEN <<Line(TermSignalMsg, 0, WTERMSIG(status))>>
    ELSE <<>>

\* the blocking waitpid() returns (smallsh.c:389-393) and main() stores the
\* status execute_smallsh() returns (smallsh.c:672)
ForegroundDone ==
    /\ pc = "fgwait"
    /\ child[fg_pid].st = "zombie"
    /\ exit_code' = child[fg_pid].status
    /\ out' = ForegroundNotice(child[fg_pid].status)
    /\ child' = [child EXCEPT ![fg_pid] = Reaped(child[fg_pid])]
    /\ last' = Step("foreground_done", <<>>, fg_pid)
    /\ fg_pid' = 0
    /\ pc' = "sweep"
    /\ UNCHANGED <<foreground_mode, pid_head, parse_status, cwd, fds, nforks,
                   reports, HOME, freed_read, shell_status>>

\* a forked child runs the child branch of execute_smallsh()
ChildSetup ==
    \E p \in Pids :
        /\ child[p].st = "forked"
        /\ child' = [child EXCEPT ![p] = ChildBranch(child[p])]
        /\ UNCHANGED <<pc, foreground_mode, pid_head, exit_code, parse_status,
                       cwd, fds, fg_pid, nforks, out, reports, last, HOME,
                       freed_read, shell_status>>

\* the program a child runs calls exit(n)
ChildExits ==
    \E p \in Pids, n \in ExitCodes :
        /\ child[p].st = "running"
        /\ child' = [child EXCEPT ![p] = Zombie(child[p], W_EXITCODE(n))]
        /\ UNCHANGED <<pc, foreground_mode, pid_head, exit_code, parse_status,
                       cwd, fds, fg_pid, nforks, out, reports, last, HOME,
                       freed_read, shell_status>>

\* the program a child runs is ended by a signal
ChildSignalled ==
    \E p \in Pids, sig \in TermSignals :
        /\ child[p].st = "running"
        /\ child' = [child EXCEPT ![p] = Zombie(child[p], W_TERMSIG(sig))]
        /\ UNCHANGED <<pc, foreground_mode, pid_head, exit_code, parse_status,
                       cwd, fds, fg_pid, nforks, out, reports, last, HOME,
                       freed_read, shell_status>>

\* SIGINT is delivered to a child: it ends a child whose disposition is the
\* default action and has no effect on one that ignores it
Interrupt(c) ==
    IF c.sigint = "default" THEN Zombie(c, W_TERMSIG(SIGINT)) ELSE c

\* SIGINT (the terminal's interrupt key or kill()) reaches a live child; the
\* interpreter itself ignores it (parent_handler)
SigInt ==
    \E p \in Pids :
        /\ child[p].st \in {"forked", "running"}
        /\ child' = [child EXCEPT ![p] = Interrupt(child[p])]
        /\ UNCHANGED <<pc, foreground_mode, pid_head, exit_code, parse_status,
                       cwd, fds, fg_pid, nforks, out, reports, last, HOME,
                       freed_read, shell_status>>

\* variant: the handler only ever enters foreground-only mode
set_foreground_mode_EnterOnly(mode) ==
    [ mode |-> TRUE,
      lines |-> <<Line(EnterFgOnlyMsg, 0, 0)>>,
      calls |-> <<"fflush", "write">> ]

\* set_foreground_mode(): the new value of the flag, the notice written and
\* the library calls made, in order
set_foreground_mode(mode) ==
    [ mode |-> ~mode,
      lines |-> IF mode THEN <<Line(ExitFgOnlyMsg, 0, 0)>>
                ELSE <<Line(EnterFgOnlyMsg, 0, 0)>>,
      calls |-> <<"fflush", "write">> ]

\* variant: the handler also clears main()'s exit_code
SigTstp_ClearsStatus ==
    /\ pc \notin {"done", "crashed"}
    /\ LET r == set_foreground_mode(foreground_mode)
       IN  /\ foreground_mode' = r.mode
           /\ out' = r.lines
           /\ last' = Step("set_foreground_mode", r.calls, 0)
    /\ exit_code' = 0
    /\ UNCHANGED <<pc, pid_head, parse_status, cwd, fds, child, fg_pid,
                   nforks, reports, HOME, freed_read, shell_status>>

\* SIGTSTP is delivered to the interpreter, whose disposition is the handler
\* set_foreground_mode() (parent_handler); the step records the library
\* calls of the handler as its line
SigTstp ==
    /\ pc \notin {"done", "crashed"}
    /\ parent_handler.sigtstp = "set_foreground_mode"
    /\ LET r == set_foreground_mode(foreground_mode)
       IN  /\ foreground_mode' = r.mode
           /\ out' = r.lines
           /\ last' = Step("set_foreground_mode", r.calls, 0)
    /\ UNCHANGED <<pc, pid_head, exit_code, parse_status, cwd, fds, child,
                   fg_pid, nforks, reports, HOME, freed_read, shell_status>>

Next ==
    \/ WaitBackground
    \/ ReadBlank
    \/ ReadComment
    \/ ReadExit
    \/ ReadEOF
    \/ ReadCd
    \/ ReadStatus
    \/ ForkFails
    \/ StartBackground
    \/ StartForeground
    \/ ForegroundDone
    \/ ChildSetup
    \/ ChildExits
    \/ ChildSignalled
    \/ SigInt
    \/ SigTstp

Spec == Init /\ [][Next]_vars

-----------------------------------------------------------------------------
(* Properties *)

\* the step is one call of wait_background()
SweepRuns == pc = "sweep" /\ pc' # "sweep"

\* the lines among ls that name pid p
LinesFor(ls, p) == SelectSeq(ls, LAMBDA l : l.pid = p)

\* the exit codes a background child can end with: those of the program and
\* the 1 of a failed setup
ChildExitCodes == ExitCodes \cup {1}

\* C1 (as stated): every background child that exited with code N gets,
\* over the rest of the run, exactly one completion report carrying N; in
\* particular a child that has exited and is still in the registry when the
\* interpreter shuts down has been reported by the end of the run.
C1_ReportedByEndOfRun ==
    [][pc' = "done" =>
         \A p \in Pids, N \in ChildExitCodes :
             (InList(pid_head, p) /\ child[p].st = "zombie"
                  /\ child[p].status = W_EXITCODE(N))
             => reports'[p] = <<Line(BgExitMsg, p, N)>>]_vars

\* C1 (amended): a sweep that reaps a background child which exited with
\* code N prints exactly one completion report for its pid, carrying exit
\* value N, and leaves the pid out of the registry; no pid is ever reported
\* twice and a reported pid is never in the registry again.
C1_RoundTrip ==
    /\ [](\A p \in Pids :
            /\ Len(reports[p]) <= 1
            /\ reports[p] # <<>> => ~InList(pid_head, p))
    /\ [][SweepRuns =>
            \A p \in Pids, N \in ChildExitCodes :
                (child[p].st = "zombie" /\ child'[p].st = "reaped"
                     /\ child[p].status = W_EXITCODE(N))
                => /\ LinesFor(out', p) = <<Line(BgExitMsg, p, N)>>
                   /\ reports'[p] = <<Line(BgExitMsg, p, N)>>
                   /\ InList(pid_head, p)
                   /\ ~InList(pid_head', p)]_vars

\* a sweep has just reported a background child that exited with code 3
C1_Witness ==
    /\ last.op = "wait_background"
    /\ \E p \in Pids :
           /\ LinesFor(out, p) = <<Line(BgExitMsg, p, 3)>>
           /\ reports[p] = <<Line(BgExitMsg, p, 3)>>
           /\ ~InList(pid_head, p)

\* C2: one sweep handles the whole registry: every entry whose child is
\* still running stays in the registry and gets no report, every entry
\* whose child has terminated is removed and reported exactly once.
C2_SweepHandlesRegistry ==
    [][SweepRuns =>
         \A p \in Pids :
             InList(pid_head, p) =>
                 /\ child[p].st \in {"forked", "running"}
                        => InList(pid_head', p) /\ LinesFor(out', p) = <<>>
                 /\ child[p].st = "zombie"
                        => ~InList(pid_head', p) /\ Len(LinesFor(out', p)) = 1]_vars

\* C3: a completion is never reported before the child has terminated, and
\* every child found terminated when a cycle starts has been reported once
\* the sweep of that cycle is over.
C3_ReportedByNextCycle ==
    /\ [](\A p \in Pids : reports[p] # <<>> => child[p].st = "reaped")
    /\ [][SweepRuns =>
            \A p \in Pids :
                (InList(pid_head, p) /\ child[p].st = "zombie")
                => reports'[p] # <<>>]_vars

\* the step is one pass of the interpreter through get_input() and the
\* dispatcher
ReadRuns == pc = "read" /\ pc' # "read"

\* the elements of a sequence
Range(seq) == {seq[i] : i \in 1..Len(seq)}

\* C4: a request issued in foreground-only mode is run in the foreground
\* whatever its last token: the interpreter blocks on the new child until
\* it has terminated, the registry is not touched, no background-start
\* notice is printed and "&" is not among the child's arguments.
C4_ForegroundOnly ==
    /\ [][(ReadRuns /\ foreground_mode
              /\ last'.op \in {"foreground", "background", "fork_failed"})
           => /\ last'.op # "background"
              /\ pid_head' = pid_head
              /\ \A i \in 1..Len(out') : out'[i].msg # BgStartMsg
              /\ last'.op = "foreground"
                    => /\ pc' = "fgwait"
                       /\ fg_pid' = last'.pid
                       /\ ~child'[fg_pid'].in.is_background
                       /\ "&" \notin Range(child'[fg_pid'].in.args)]_vars
    /\ [][(pc = "fgwait" /\ pc' # "fgwait")
           => child[fg_pid].st = "zombie" /\ child'[fg_pid].st = "reaped"]_vars
    /\ [](\A p \in Pids : "&" \notin Range(child[p].argv))

\* in foreground-only mode a line ending in "&" has been started and the
\* interpreter is blocked on its child
C4_Witness ==
    /\ foreground_mode
    /\ last.op = "foreground"
    /\ last.line[Len(last.line)] = "&"
    /\ pc = "fgwait"
    /\ fg_pid = last.pid
    /\ ~InList(pid_head, fg_pid)

\* C5: starting a background job leaves Last Status as it was: the line
\* 'status' would print is the same before and after the start.
C5_BackgroundKeepsStatus ==
    [][(ReadRuns /\ last'.op = "background")
       => status_smallsh(exit_code') = status_smallsh(exit_code)]_vars

\* C6: 'status' prints exactly one line, "exit value <n>" or "terminated by
\* signal <n>", creates no process and leaves Last Status and the registry
\* unchanged, whatever commands came before.
C6_StatusOneLine ==
    /\ [](last.op = "status"
            => /\ Len(out) = 1
               /\ out[1].msg \in {ExitValueMsg, TermSignalMsg})
    /\ [][(ReadRuns /\ last'.op = "status")
           => /\ exit_code' = exit_code
              /\ pid_head' = pid_head
              /\ child' = child
              /\ nforks' = nforks]_vars

\* C7: 'cd' creates no process and never ends the interpreter; it moves to
\* its argument, or to HOME without argument, and when the directory
\* change fails the working directory stays and Last Status is non-zero.
C7_Cd ==
    [][(ReadRuns /\ last'.op = "cd")
       => LET line == last'.line
              dest == IF Len(line) >= 2 THEN line[2] ELSE HOME
          IN  /\ child' = child
              /\ nforks' = nforks
              /\ pid_head' = pid_head
              /\ fg_pid' = fg_pid
              /\ pc' = "sweep"
              /\ dest \in Dirs => cwd' = dest /\ exit_code' = 0
              /\ dest \notin Dirs => cwd' = cwd /\ exit_code' = -1]_vars

\* 'cd /nonexistent' has just failed in the directory an earlier 'cd'
\* without argument moved to
C7_Witness ==
    /\ last.op = "cd"
    /\ last.line = <<"cd", "/nonexistent">>
    /\ exit_code = -1
    /\ cwd = HOME
    /\ cwd # "/"
    /\ pc = "sweep"

\* C8: in a child that runs its program each standard stream is bound to
\* the file the request names for it, else to the null device when the
\* request is a background one, else to what the interpreter has; the
\* interpreter's own streams stay on the terminal.
C8_Redirection ==
    /\ fds = [stdin |-> "tty", stdout |-> "tty"]
    /\ \A p \in Pids :
          child[p].st = "running" =>
              LET c == child[p]
              IN  /\ c.in.input_file # NULL => c.stdin = c.in.input_file
                  /\ (c.in.input_file = NULL /\ c.in.is_background)
                        => c.stdin = "/dev/null"
                  /\ (c.in.input_file = NULL /\ ~c.in.is_background)
                        => c.stdin = fds.stdin
                  /\ c.in.output_file # NULL => c.stdout = c.in.output_file
                  /\ (c.in.output_file = NULL /\ c.in.is_background)
                        => c.stdout = "/dev/null"
                  /\ (c.in.output_file = NULL /\ ~c.in.is_background)
                        => c.stdout = fds.stdout

\* a background child runs with an explicit input file and its output on
\* the null device
C8_Witness ==
    \E p \in Pids :
        /\ child[p].st = "running"
        /\ child[p].in.is_background
        /\ child[p].in.input_file = "in.txt"
        /\ child[p].in.output_file = NULL
        /\ child[p].stdin = "in.txt"
        /\ child[p].stdout = "/dev/null"

\* the request of child c cannot be set up
SetupMustFail(c) ==
    \/ c.in.input_file \notin ReadableFiles \cup {NULL}
    \/ c.in.output_file \notin WritableFiles \cup {NULL}
    \/ c.in.command \notin Programs

\* C9: a child whose file cannot be opened or whose program cannot be
\* executed prints a diagnostic and ends with exit status 1 without running
\* a program; its setup changes nothing in the interpreter; the foreground
\* wait on it is able to return from then on, and when it does Last Status
\* is exit value 1.
C9_SetupFailure ==
    /\ [][\A p \in Pids :
             (child[p].st = "forked" /\ child'[p].st \in {"running", "zombie"})
             => /\ UNCHANGED <<pc, foreground_mode, pid_head, exit_code,
                               parse_status, cwd, fds, fg_pid, out>>
                /\ SetupMustFail(child[p])
                     => /\ child'[p].st = "zombie"
                        /\ child'[p].diag # NULL
                        /\ child'[p].image = "smallsh"
                        /\ child'[p].status = W_EXITCODE(1)]_vars
    /\ [](\A p \in Pids :
             child[p].diag # NULL
             => child[p].st = "zombie" /\ child[p].status = W_EXITCODE(1))
    /\ [][(pc = "fgwait" /\ pc' # "fgwait" /\ child[fg_pid].diag # NULL)
           => /\ pc' = "sweep"
              /\ exit_code' = W_EXITCODE(1)
              /\ status_smallsh(exit_code') = <<Line(ExitValueMsg, 0, 1)>>
              /\ out' = <<>>]_vars
    /\ []((pc = "fgwait" /\ child[fg_pid].diag # NULL)
            => ENABLED ForegroundDone)

\* the foreground wait on a child that could not open its input file has
\* returned (no program of the model exits with 1)
C9_Witness ==
    /\ last.op = "foreground_done"
    /\ pc = "sweep"
    /\ exit_code = W_EXITCODE(1)
    /\ status_smallsh(exit_code) = <<Line(ExitValueMsg, 0, 1)>>

\* C10: when fork() fails, execute_smallsh() returns 1 and does nothing
\* else: no wait, no registry entry, no notice, and the next cycle begins.
C10_ForkFailure ==
    [][(ReadRuns /\ last'.op = "fork_failed")
       => /\ exit_code' = 1
          /\ pid_head' = pid_head
          /\ child' = child
          /\ nforks' = nforks
          /\ out' = <<>>
          /\ fg_pid' = 0
          /\ pc' = "sweep"]_vars

\* fork() has just failed for a background request
C10_Witness ==
    /\ last.op = "fork_failed"
    /\ IsBackground(last.line, foreground_mode)
    /\ exit_code = 1
    /\ pc = "sweep"

\* the child is alive: forked or running a program
Alive(c) == c.st \in {"forked", "running"}

\* C11: shutdown through "exit" or end of input is always possible at the
\* prompt and completes in that step: every child still in the registry is
\* sent SIGKILL and waited for, so that when the interpreter has ended no
\* child is running or unreaped, the registry is empty and the exit code
\* of the interpreter is 0.
C11_ShutdownDrain ==
    /\ [](pc = "read" => ENABLED ReadExit /\ ENABLED ReadEOF)
    /\ [][(ReadRuns /\ last'.op \in {"exit", "eof"})
           => /\ pc' = "done"
              /\ shell_status' = W_EXITCODE(0)
              /\ \A p \in Pids :
                    InList(pid_head, p)
                    => /\ child'[p].st = "reaped"
                       /\ Alive(child[p])
                            => child'[p].status = W_TERMSIG(SIGKILL)]_vars
    /\ [](pc = "done"
            => /\ pid_head = <<>>
               /\ \A p \in Pids : ~Unreaped(child[p])
               /\ WIFEXITED(shell_status) /\ WEXITSTATUS(shell_status) = 0)

\* the interpreter has ended at end of input, and of its two background
\* children one was still alive and was ended by the SIGKILL of the drain
C11_Witness ==
    /\ pc = "done"
    /\ last.op = "eof"
    /\ shell_status = W_EXITCODE(0)
    /\ nforks = 2
    /\ child[1].st = "reaped" /\ child[1].status = W_TERMSIG(SIGKILL)
    /\ child[2].st = "reaped" /\ reports[2] = <<>>

\* the outcomes a read of freed memory can still have in this run
FreedModes == IF freed_read = "unread" THEN FreedReads ELSE {freed_read}

\* C12: before shutdown the interpreter blocks only in the foreground wait,
\* on the child it has just forked for a foreground request; the loop of
\* the sweep runs to its end whatever state the children are in, it never
\* waits for, ends or removes a background child that is alive and,
\* when no registry child has terminated, goes on to the prompt with the
\* registry as it was; no step before shutdown ends or reaps a child that
\* is alive; and the foreground wait returns once its child has terminated.
C12_NeverStalls ==
    /\ [](pc = "fgwait"
            => /\ fg_pid = nforks
               /\ Unreaped(child[fg_pid])
               /\ ~InList(pid_head, fg_pid)
               /\ Alive(child[fg_pid]) => ~child[fg_pid].in.is_background)
    /\ [](pc = "sweep"
            => \A mode \in FreedModes :
                   wait_background(pid_head, child, mode).temp = 0)
    /\ [][SweepRuns
           => /\ \A p \in Pids :
                    Alive(child[p])
                    => /\ child'[p] = child[p]
                       /\ InList(pid_head', p) <=> InList(pid_head, p)
              /\ (\A p \in Pids : InList(pid_head, p) => Alive(child[p]))
                    => /\ pc' = "read"
                       /\ pid_head' = pid_head
                       /\ child' = child
                       /\ out' = <<>>]_vars
    /\ [][\A p \in Pids :
             (Alive(child[p]) /\ child'[p].st = "reaped")
             => pc = "read" /\ pc' = "done"]_vars
    /\ []((pc = "fgwait" /\ child[fg_pid].st = "zombie")
            => ENABLED ForegroundDone)
    /\ [][(pc = "fgwait" /\ pc' # "fgwait") => pc' = "sweep"]_vars

\* a foreground child has run to its end and the next sweep has reached
\* the prompt, while an earlier background child is still running
C12_Witness ==
    /\ pc = "read"
    /\ last.op = "wait_background"
    /\ pid_head = <<1>>
    /\ child[1].st = "running"
    /\ child[2].st = "reaped"

\* the step is one run of the handler set_foreground_mode()
HandlerRuns ==
    /\ last'.op = "set_foreground_mode"
    /\ last.op # "set_foreground_mode" \/ foreground_mode' # foreground_mode

\* the notice that names a state of the mode flag
ModeNotice(mode) ==
    <<Line(IF mode THEN EnterFgOnlyMsg ELSE ExitFgOnlyMsg, 0, 0)>>

\* C13: SIGTSTP can be delivered to the interpreter whenever it runs; each
\* delivery flips the mode flag, whatever its value, and writes the notice
\* that names the new state; when the previous step of the interpreter was
\* a delivery too, the two notices are the two different ones, the earlier
\* naming the state between the deliveries, and the flag is back at the
\* value it had before the first of them.
C13_ModeToggle ==
    /\ [](pc \notin {"done", "crashed"} => ENABLED SigTstp)
    /\ [][HandlerRuns
           => /\ foreground_mode' = ~foreground_mode
              /\ out' = ModeNotice(foreground_mode')
              /\ last.op = "set_foreground_mode"
                    => /\ out = ModeNotice(foreground_mode)
                       /\ out \o out' = ModeNotice(~foreground_mode')
                                            \o ModeNotice(foreground_mode')
                       /\ out # out']_vars
    /\ [](last.op = "set_foreground_mode" => out = ModeNotice(foreground_mode))

\* the second of two deliveries in a row has brought the flag back to the
\* interactive state the interpreter starts in
C13_Witness ==
    /\ last.op = "set_foreground_mode"
    /\ foreground_mode = FALSE
    /\ out = <<Line(ExitFgOnlyMsg, 0, 0)>>
    /\ nforks = 0
    /\ exit_code = 0
    /\ pc = "sweep"

\* C14: a second sweep right after a sweep, with no step of any process in
\* between, prints no completion report and leaves the registry as it is.
C14_SweepIdempotent ==
    [][(SweepRuns /\ pc' = "read")
       => \A mode \in (IF freed_read' = "unread" THEN FreedReads
                        ELSE {freed_read'}) :
              LET again == wait_background(pid_head', child', mode)
              IN  /\ again.lines = <<>>
                  /\ again.list = pid_head'
                  /\ again.ch = child']_vars

\* C15: a live child ignores SIGTSTP from its creation on, and its SIGINT
\* disposition is the default action if it is a foreground child and
\* "ignore" if it is a background child; the interpreter ignores SIGINT,
\* and SIGINT ends no child but the one the interpreter waits for in the
\* foreground, and never the interpreter.
C15_SignalDispositions ==
    /\ [](\A p \in Pids :
            Alive(child[p])
            => /\ child[p].sigtstp = "ignore"
               /\ child[p].sigint = IF child[p].in.is_background
                                     THEN "ignore" ELSE "default")
    /\ [](/\ parent_handler.sigint = "ignore"
          /\ pc = "crashed" => shell_status # W_TERMSIG(SIGINT))
    /\ [][\A p \in Pids :
             (Alive(child[p]) /\ child'[p].st = "zombie"
                  /\ child'[p].status = W_TERMSIG(SIGINT))
             => pc = "fgwait" /\ p = fg_pid /\ ~InList(pid_head, p)]_vars

\* C16: the foreground wait ends only in a step that finds its child
\* terminated, also when SIGTSTP is delivered during the wait; that step
\* reaps the child, makes its status word the Last Status (exit code n as
\* exited with n, signal s as terminated by s), prints "terminated by
\* signal s" exactly when the child was ended by a signal s and nothing
\* otherwise, and begins the next cycle.
C16_ForegroundCompletion ==
    /\ [][pc = "fgwait" /\ child[fg_pid].st # "zombie"
           => pc' = "fgwait" /\ fg_pid' = fg_pid /\ exit_code' = exit_code]_vars
    /\ [][(pc = "fgwait" /\ pc' # "fgwait")
           => /\ child[fg_pid].st = "zombie"
              /\ child'[fg_pid].st = "reaped"
              /\ pc' = "sweep"
              /\ exit_code' = child[fg_pid].status
              /\ \A n \in ChildExitCodes :
                    child[fg_pid].status = W_EXITCODE(n)
                    => /\ WIFEXITED(exit_code') /\ ~WIFSIGNALED(exit_code')
                       /\ WEXITSTATUS(exit_code') = n
                       /\ out' = <<>>
              /\ \A sig \in TermSignals \cup {SIGINT} :
                    child[fg_pid].status = W_TERMSIG(sig)
                    => /\ WIFSIGNALED(exit_code') /\ ~WIFEXITED(exit_code')
                       /\ WTERMSIG(exit_code') = sig
                       /\ out' = <<Line(TermSignalMsg, 0, sig)>>
              /\ \/ \E n \in ChildExitCodes :
                        child[fg_pid].status = W_EXITCODE(n)
                 \/ \E sig \in TermSignals \cup {SIGINT} :
                        child[fg_pid].status = W_TERMSIG(sig)]_vars
    /\ []((pc = "fgwait" /\ child[fg_pid].st # "zombie")
            => ~ENABLED ForegroundDone)

\* the foreground wait has returned for a child that SIGINT ended, after a
\* SIGTSTP had put the interpreter in foreground-only mode
C16_Witness ==
    /\ last.op = "foreground_done"
    /\ foreground_mode
    /\ exit_code = W_TERMSIG(SIGINT)
    /\ out = <<Line(TermSignalMsg, 0, SIGINT)>>
    /\ pc = "sweep"

\* C17: the registry holds, each once, exactly the pids of the children
\* that are not yet reaped and are not the child of the foreground wait;
\* a live child is in the registry exactly if it is a background child;
\* a background start puts the new pid at the head of the registry, prints
\* "Background pid is <pid>." and begins the next cycle; a foreground start
\* and a failed fork leave the registry as it is.
C17_RegistryInvariant ==
    /\ [](/\ \A i, j \in 1..Len(pid_head) : pid_head[i] = pid_head[j] => i = j
          /\ \A p \in Pids :
                /\ InList(pid_head, p) <=> Unreaped(child[p]) /\ p # fg_pid
                /\ Alive(child[p])
                     => (InList(pid_head, p) <=> child[p].in.is_background)
          /\ \A i \in 1..Len(pid_head) : pid_head[i] \in 1..nforks)
    /\ [][(ReadRuns /\ last'.op = "background")
           => /\ last'.pid = nforks' /\ nforks' = nforks + 1
              /\ pid_head' = <<last'.pid>> \o pid_head
              /\ child[last'.pid].st = "none"
              /\ child'[last'.pid].st = "forked"
              /\ child'[last'.pid].in.is_background
              /\ out' = <<Line(BgStartMsg, last'.pid, 0)>>
              /\ pc' = "sweep"]_vars
    /\ [][(ReadRuns /\ last'.op \in {"foreground", "fork_failed"})
           => pid_head' = pid_head]_vars

\* a sweep has removed the pid of a terminated background child from the
\* tail of the registry and the pid of a running one is still in it
C17_Witness ==
    /\ last.op = "wait_background"
    /\ pc = "read"
    /\ nforks = 2
    /\ pid_head = <<2>>
    /\ child[2].st = "running"
    /\ child[1].st = "reaped"
    /\ reports[1] # <<>>

\* C18: the mode flag changes only in a step of the handler, and a step of
\* the handler changes nothing but the flag and the output; the registry
\* changes only in a step of the interpreter: a background start, a sweep
\* or the shutdown.
C18_SingleWriter ==
    /\ [][foreground_mode' # foreground_mode => HandlerRuns]_vars
    /\ [][HandlerRuns
           => UNCHANGED <<pc, pid_head, exit_code, parse_status, cwd, fds,
                          child, fg_pid, nforks, reports, HOME, freed_read,
                          shell_status>>]_vars
    /\ [][pid_head' # pid_head
           => \/ ReadRuns /\ last'.op \in {"background", "exit", "eof"}
              \/ SweepRuns /\ last'.op = "wait_background"]_vars

\* the handler has run after a failed fork, with a child in the registry:
\* the registry and the Last Status 1 are as they were
C18_Witness ==
    /\ last.op = "set_foreground_mode"
    /\ foreground_mode
    /\ pc = "sweep"
    /\ pid_head = <<1>>
    /\ child[1].st = "forked"
    /\ exit_code = 1

\* library calls that may be made at any point of interruption: write();
\* of the calls the model records, fflush() is not one (signal-safety(7))
AsyncSignalSafe == {"write"}

\* C19: every library call a run of the handler makes is safe at an
\* arbitrary point of interruption, and it makes no other call than the
\* write() of its notice.
C19_HandlerReentrant ==
    last.op = "set_foreground_mode"
    => /\ \A i \in 1..Len(last.line) : last.line[i] \in AsyncSignalSafe
       /\ last.line = <<"write">>

\* C20: reading a blank line dispatches nothing and begins the next cycle
\* with the Last Status, the registry, the children and everything else
\* but the output as they were.
C20_BlankLineNoOp ==
    [][(ReadRuns /\ last'.op = "blank")
       => /\ pc' = "sweep"
          /\ out' = <<>>
          /\ UNCHANGED <<foreground_mode, pid_head, exit_code, parse_status,
                         cwd, fds, child, fg_pid, nforks, reports, HOME,
                         freed_read, shell_status>>]_vars

\* the step stores a value in main()'s exit_code as the claim allows it: the
\* return of the foreground wait, a failed fork or the built-in cd
StoresStatus ==
    \/ pc = "fgwait" /\ pc' # "fgwait"
    \/ ReadRuns /\ last'.op \in {"fork_failed", "cd"}

\* C21: "status" prints the decoding of the Last Status and leaves it as it
\* is; the Last Status is written only by a foreground completion, a failed
\* fork or cd, and what "status" prints for the value written is true of
\* the writer: "terminated by signal n" only if the foreground child waited
\* for was ended by signal n, "exit value n" only if that child exited with
\* n, the fork failed and n is 1, or cd succeeded and n is 0.
C21_LastStatusFaithful ==
    /\ [][(ReadRuns /\ last'.op = "status")
           => out' = status_smallsh(exit_code) /\ exit_code' = exit_code]_vars
    /\ [][exit_code' # exit_code => StoresStatus]_vars
    /\ [][StoresStatus
           => \A i \in 1..Len(status_smallsh(exit_code')) :
                  LET l == status_smallsh(exit_code')[i]
                  IN  /\ l.msg = TermSignalMsg
                           => /\ pc = "fgwait"
                              /\ child[fg_pid].status = W_TERMSIG(l.n)
                      /\ l.msg = ExitValueMsg
                           => \/ /\ pc = "fgwait"
                                 /\ child[fg_pid].status = W_EXITCODE(l.n)
                              \/ last'.op = "fork_failed" /\ l.n = 1
                              \/ last'.op = "cd" /\ l.n = 0]_vars

====
